---- MODULE Spec2Model ----
(***************************************************************************)
(* Typing Practice State Engine of learn_typing-simulation.                *)
(*                                                                         *)
(* The model follows the IIFE of the typing simulator: its module-level    *)
(* variables are the state, and every handler registered in initialize()   *)
(* (input event, restart click, the 100 ms interval callback, the text     *)
(* fetch settling) is one action.  Strings are sequences of one-character  *)
(* strings.  A JavaScript null is the empty sequence and a set value v is  *)
(* the one-element sequence <<v>>.  The page is assumed to contain every   *)
(* element initialize() looks up (typing-text, hidden-input,               *)
(* completion-screen, realtime-stats-container).                           *)
(***************************************************************************)
EXTENDS Integers, Sequences, FiniteSets, TLC

VARIABLES
  originalText,           \* reference text (trimmed at load)
  typedText,              \* typed prefix
  charStates,             \* per-position state
  startTime,              \* <<>> (null) or <<t>>
  totalErrors,
  totalInputs,
  realtimeStatsInterval,  \* TRUE when setInterval is scheduled, FALSE when null
  availableKeysSet,       \* lower-cased allow-set built by loadConfig
  realTimeStats,          \* TRUE when config.realTimeStats is a non-empty array
  now,                    \* Date.now()
  loadPending,            \* TRUE while the fetch of loadText has not settled
  sessionState,           \* "idle", "active" or "complete": the branch renderText took last
  reportHanded,           \* TRUE when a report was handed to saveStatistics since load / restart
  handedReport,           \* <<>> or <<r>>: the report the last handler handed to saveStatistics
  lastEvent,              \* the handler that ran last
  exampleStep,            \* progress through the accuracy example of the specification
  snapshot,               \* <<>> or <<s>>: the live snapshot updateRealtimeStats displayed last
  configKeys,             \* config.availableKeys as loaded
  policyCall,             \* the last direct use of the key policy: a key test or a buffer filter
  lastInput,              \* <<>> or <<v>>: the value the last input handler left in the buffer
  savePending,            \* the POST /save-stats requests that have not settled
  reportCall,             \* the last report formatted by saveStatistics and read back
  scheduledIntervals,     \* the intervals setInterval has scheduled and clearInterval not cancelled
  showStats,              \* config.showStats === true
  completionScreen,       \* TRUE when completionScreen.style.display is 'flex'
  statsDashboard,         \* TRUE when statsDashboard.style.display is 'flex'
  restartButton,          \* FALSE when the parent of the restart button is hidden
  dashboardTimeouts,      \* the 200 ms timeouts of showCompletionScreen that have not fired
  statsFetches,           \* the showStatsDashboard calls waiting for the stats file
  restarted,              \* TRUE from a restart until the next completion is detected
  sockets,                \* the readyState of every WebSocket the relay client constructed
  reconnectTimers,        \* the times at which the pending reconnection timeouts are due
  relayNow,               \* the clock of the relay client, in seconds
  relayStatus,            \* the text setStatus wrote last
  attempts,               \* the calls of initializeWebSocket
  lastAlert               \* <<>> or <<m>>: the message the last onmessage handler alerted

\* the typing simulator
typingVars == <<originalText, typedText, charStates, startTime, totalErrors, totalInputs,
          realtimeStatsInterval, availableKeysSet, realTimeStats, now,
          loadPending, sessionState, reportHanded, handedReport, lastEvent, exampleStep,
          snapshot, configKeys, policyCall, lastInput, savePending, reportCall,
          scheduledIntervals, showStats, completionScreen, statsDashboard, restartButton,
          dashboardTimeouts, statsFetches, restarted>>

\* the WebSocket relay client of app.js
relayVars == <<sockets, reconnectTimers, relayNow, relayStatus, attempts, lastAlert>>

vars == <<typingVars, relayVars>>

\* the displays the handlers switch and the callbacks of showCompletionScreen in flight
screenVars == <<showStats, completionScreen, statsDashboard, restartButton,
                dashboardTimeouts, statsFetches, restarted>>

\* ------------------------------------------------------------------ bounds

MaxBufLen == 3    \* longest raw value of the input buffer
MaxInputs == 3    \* cap on totalInputs
MaxNow == 1       \* cap on the clock
MaxSaves == 1     \* cap on the save requests in flight
MaxSockets == 3   \* cap on the calls of initializeWebSocket

\* ------------------------------------------------------------ small values

null == <<>>

\* milliseconds in a minute: totalTimeSeconds = ms / 1000, totalTimeMinutes = totalTimeSeconds / 60
Minute == 60000

Chars == {"a", "b", "x", " "}

Whitespace == {" ", "\n", "\t", "\r"}

\* contents the text file can have
RawTexts == { <<>>, <<"a", "b">>, <<"a", "b", " ">>, <<"b">> }

\* allow-sets config.json can carry
AllowSets == { {}, {"A", "b"} }

RECURSIVE SeqsUpTo(_)
SeqsUpTo(n) ==
  IF n = 0 THEN { <<>> }
  ELSE LET shorter == SeqsUpTo(n - 1)
       IN shorter \cup { Append(s, c) : s \in { t \in shorter : Len(t) = n - 1 }, c \in Chars }

BufferValues == SeqsUpTo(MaxBufLen)

\* the ways the POST of saveStatistics settles: response.ok, a response that is not ok,
\* a rejected fetch
SaveOutcomes == {"saveOk", "saveHttpError", "saveException"}

\* the ways the fetch of the stats file in showStatsDashboard settles
StatsFetchOutcomes == {"statsOk", "statsHttpError", "statsException"}

\* allow-sets for the key policy taken alone
KeyConfigs == SUBSET {"A", "b", "Tab"}

\* the keys handleKeyDown can see (KeyboardEvent.key values and characters)
Keys ==
  { " ", "\\u00A0", ",", ".", "Backspace", "\\b", "Enter", "Return", "\n", "\r",
    "Space", "space", "comma", "dot", "backspace", "enter",
    "Delete", "Tab", "tab", "\t", "a", "A", "b", "B", "x", "X" }

\* the characters of a buffer for the key policy taken alone
KeyChars == {"a", "A", "x", " ", "\t"}

RECURSIVE SeqsOver(_, _)
SeqsOver(cs, n) ==
  IF n = 0 THEN { <<>> }
  ELSE LET shorter == SeqsOver(cs, n - 1)
       IN shorter \cup { Append(s, c) : s \in { t \in shorter : Len(t) = n - 1 }, c \in cs }

KeyBufferValues == SeqsOver(KeyChars, MaxBufLen)

\* ----------------------------------------------------------- pure helpers

\* String.prototype.toLowerCase on the keys the model uses
ToLowerCase(key) ==
  CASE key = "A" -> "a"
    [] key = "B" -> "b"
    [] key = "X" -> "x"
    [] key = "Tab" -> "tab"
    [] key = "Backspace" -> "backspace"
    [] key = "Enter" -> "enter"
    [] key = "Return" -> "return"
    [] key = "Space" -> "space"
    [] key = "Delete" -> "delete"
    [] OTHER -> key

\* String.prototype.trimEnd
RECURSIVE TrimEnd(_)
TrimEnd(s) ==
  IF s = <<>> THEN s
  ELSE IF s[Len(s)] \in Whitespace THEN TrimEnd(SubSeq(s, 1, Len(s) - 1))
  ELSE s

\* a loadConfig that stores the keys as configured, without lower-casing
KeepKeys(keys) == keys

\* availableKeysSet = new Set(config.availableKeys.map(key => key.toLowerCase()))
NormalizeKeys(keys) == { ToLowerCase(k) : k \in keys }

\* an isKeyAvailable without the always-available group
IsKeyAvailableNoGroup(key, keys) ==
  LET keyLower == ToLowerCase(key) IN
  IF Cardinality(keys) = 0 THEN TRUE
  ELSE IF key = "Tab" \/ keyLower = "tab" THEN "tab" \in keys
  ELSE IF key = "\t" THEN "tab" \in keys
  ELSE keyLower \in keys

\* isKeyAvailable
IsKeyAvailable(key, keys) ==
  LET keyLower == ToLowerCase(key) IN
  IF \/ key \in {" ", "\\u00A0", ",", ".", "Backspace", "\\b", "Enter", "Return", "\n", "\r"}
     \/ keyLower \in {"space", "comma", "dot", "backspace", "enter"}
  THEN TRUE
  ELSE IF Cardinality(keys) = 0 THEN TRUE
  ELSE IF key = "Tab" \/ keyLower = "tab" THEN "tab" \in keys
  ELSE IF key = "\t" THEN "tab" \in keys
  ELSE keyLower \in keys

\* a filter loop that stops at the first unavailable character
RECURSIVE FilterCharsPrefix(_, _)
FilterCharsPrefix(input, keys) ==
  IF input = <<>> THEN <<>>
  ELSE IF IsKeyAvailable(Head(input), keys)
       THEN <<Head(input)>> \o FilterCharsPrefix(Tail(input), keys)
       ELSE <<>>

\* a filter loop that tests the newest character only
FilterCharsNewest(input, keys) ==
  IF input = <<>> THEN <<>>
  ELSE IF IsKeyAvailable(input[Len(input)], keys) THEN input
  ELSE SubSeq(input, 1, Len(input) - 1)

\* the loop of the whole-buffer filter of handleInput
RECURSIVE FilterChars(_, _)
FilterChars(input, keys) ==
  IF input = <<>> THEN <<>>
  ELSE LET rest == FilterChars(Tail(input), keys)
       IN IF IsKeyAvailable(Head(input), keys) THEN <<Head(input)>> \o rest ELSE rest

\* a filter that tests the first character only
FilterInputFirstOnly(input, keys) ==
  IF Cardinality(keys) > 0 /\ input # <<>> /\ ~IsKeyAvailable(Head(input), keys)
  THEN Tail(input)
  ELSE input

\* a handleInput without the filter
NoFilter(input, keys) == input

\* the whole-buffer filter of handleInput, run only when an allow-set is configured
FilterInput(input, keys) ==
  IF Cardinality(keys) > 0 THEN FilterChars(input, keys) ELSE input

\* a handleInput without the clamp
NoClamp(input, orig) == input

\* input.slice(0, originalText.length) when the input is longer
ClampInput(input, orig) ==
  IF Len(input) > Len(orig) THEN SubSeq(input, 1, Len(orig)) ELSE input

\* a timer start that waits for a buffer of two characters
StartClockLate(st, input, t) ==
  IF st = null /\ Len(input) > 1 THEN <<t>> ELSE st

\* a timer start that restarts the clock on every non-empty buffer
StartClockAlways(st, input, t) ==
  IF Len(input) > 0 THEN <<t>> ELSE st

\* startTime after "Start timer on first keypress"; input is the filtered, unclamped buffer
StartClock(st, input, t) ==
  IF st = null /\ Len(input) > 0 THEN <<t>> ELSE st

\* positions (1-based) the forward loop visits: typedLength + i, stopping at the end of the text
ForwardPositions(typed, input, orig) ==
  { p \in (Len(typed) + 1)..Len(input) : p <= Len(orig) }

\* a forward loop that marks every position of the buffer again
ForwardStatesFromStart(cs, typed, input, orig) ==
  [ p \in 1..Len(cs) |->
      IF p <= Len(input)
      THEN (IF input[p] # orig[p] THEN "incorrect" ELSE "correct")
      ELSE cs[p] ]

\* charStates after the forward loop
ForwardStates(cs, typed, input, orig) ==
  [ p \in 1..Len(cs) |->
      IF p \in ForwardPositions(typed, input, orig)
      THEN (IF input[p] # orig[p] THEN "incorrect" ELSE "correct")
      ELSE cs[p] ]

\* a backspace loop that resets the first vacated position only
BackspaceStatesFirstOnly(cs, inputLength, orig) ==
  [ p \in 1..Len(cs) |-> IF p = inputLength + 1 /\ p <= Len(orig) THEN "pending" ELSE cs[p] ]

\* a backspace loop that resets every position
BackspaceStatesAll(cs, inputLength, orig) == [ p \in 1..Len(cs) |-> "pending" ]

\* charStates after the backspace loop
BackspaceStates(cs, inputLength, orig) ==
  [ p \in 1..Len(cs) |-> IF p > inputLength /\ p <= Len(orig) THEN "pending" ELSE cs[p] ]

\* a three-way branch that marks the positions again when the lengths are equal
NewCharStatesRemark(cs, typed, input, orig) ==
  IF Len(input) > Len(typed) THEN ForwardStates(cs, typed, input, orig)
  ELSE IF Len(input) < Len(typed) THEN BackspaceStates(cs, Len(input), orig)
  ELSE ForwardStates(cs, <<>>, input, orig)

\* charStates after the three-way branch of handleInput; input is filtered and clamped
NewCharStates(cs, typed, input, orig) ==
  IF Len(input) > Len(typed) THEN ForwardStates(cs, typed, input, orig)
  ELSE IF Len(input) < Len(typed) THEN BackspaceStates(cs, Len(input), orig)
  ELSE cs

\* typedText after the three-way branch: assigned in the forward and backspace branches only
NewTypedText(typed, input) ==
  IF Len(input) > Len(typed) THEN input
  ELSE IF Len(input) < Len(typed) THEN input
  ELSE typed

\* a three-way branch that counts one input for each forward event
NewTotalInputsPerEvent(ti, typed, input, orig) ==
  IF Len(input) > Len(typed) THEN ti + 1 ELSE ti

\* totalInputs after the three-way branch
NewTotalInputs(ti, typed, input, orig) ==
  IF Len(input) > Len(typed)
  THEN ti + Cardinality(ForwardPositions(typed, input, orig))
  ELSE ti

\* a three-way branch whose backspace branch takes back the errors of the removed characters
NewTotalErrorsUncounting(te, typed, input, orig) ==
  IF Len(input) > Len(typed)
  THEN te + Cardinality({ p \in ForwardPositions(typed, input, orig) : input[p] # orig[p] })
  ELSE IF Len(input) < Len(typed)
  THEN te - Cardinality({ p \in (Len(input) + 1)..Len(typed) : typed[p] # orig[p] })
  ELSE te

\* totalErrors after the three-way branch
NewTotalErrors(te, typed, input, orig) ==
  IF Len(input) > Len(typed)
  THEN te + Cardinality({ p \in ForwardPositions(typed, input, orig) : input[p] # orig[p] })
  ELSE te

\* a completion test that compares the untrimmed lengths
IsCompleteUntrimmed(typed, orig) == Len(typed) = Len(orig)

\* the completion test of renderText
IsComplete(typed, orig) == Len(TrimEnd(typed)) = Len(TrimEnd(orig))

\* the errorsLeft loop of calculateStatistics and calculateRealtimeStats
ErrorsLeft(cs) == Cardinality({ p \in 1..Len(cs) : cs[p] = "incorrect" })

\* originalText.trim().split(/\s+/).filter(word => word.length > 0).length
WordCount(orig) ==
  Cardinality({ p \in 1..Len(orig) :
                  /\ orig[p] \notin Whitespace
                  /\ (p = 1 \/ orig[p - 1] \in Whitespace) })

\* accuracy as the exact fraction num / den
Accuracy(ti, te) ==
  IF ti > 0 THEN [num |-> (ti - te) * 100, den |-> ti] ELSE [num |-> 0, den |-> 1]

\* a speed in words per second
SpeedPerSecond(words, elapsed) ==
  IF elapsed > 0 THEN [num |-> words * 1000, den |-> elapsed] ELSE [num |-> 0, den |-> 1]

\* words per minute as the exact fraction num / den; elapsed is in milliseconds
Speed(words, elapsed) ==
  IF elapsed > 0 THEN [num |-> words * Minute, den |-> elapsed] ELSE [num |-> 0, den |-> 1]

\* a calculateStatistics whose accuracy counts only the errors still left
CalculateStatisticsErrorsLeft(st, ti, te, cs, orig, t) ==
  IF st = null THEN null
  ELSE << [ totalErrors |-> te,
            errorsLeft  |-> ErrorsLeft(cs),
            totalTime   |-> t - st[1],
            accuracy    |-> Accuracy(ti, ErrorsLeft(cs)),
            speed       |-> Speed(WordCount(orig), t - st[1]) ] >>

\* calculateStatistics: null when no typing started, else the final report (totalTime in ms)
CalculateStatistics(st, ti, te, cs, orig, t) ==
  IF st = null THEN null
  ELSE << [ totalErrors |-> te,
            errorsLeft  |-> ErrorsLeft(cs),
            totalTime   |-> t - st[1],
            accuracy    |-> Accuracy(ti, te),
            speed       |-> Speed(WordCount(orig), t - st[1]) ] >>

\* a calculateRealtimeStats without the early return: JavaScript computes with null as 0
CalculateRealtimeStatsNoGuard(st, ti, te, cs, typed, orig, t) ==
  LET start == IF st = null THEN 0 ELSE st[1] IN
  [ speed      |-> Speed(WordCount(orig), t - start),
    accuracy   |-> Accuracy(ti, te),
    time       |-> t - start,
    errors     |-> te,
    errorsLeft |-> ErrorsLeft(cs),
    chars      |-> [typed |-> Len(typed), total |-> Len(orig)] ]

\* a calculateRealtimeStats that subtracts the current time from startTime
CalculateRealtimeStatsReversed(st, ti, te, cs, typed, orig, t) ==
  IF st = null
  THEN [ speed      |-> [num |-> 0, den |-> 1],
         accuracy   |-> [num |-> 0, den |-> 1],
         time       |-> 0,
         errors     |-> 0,
         errorsLeft |-> 0,
         chars      |-> [typed |-> Len(typed), total |-> Len(orig)] ]
  ELSE [ speed      |-> Speed(WordCount(orig), st[1] - t),
         accuracy   |-> Accuracy(ti, te),
         time       |-> st[1] - t,
         errors     |-> te,
         errorsLeft |-> ErrorsLeft(cs),
         chars      |-> [typed |-> Len(typed), total |-> Len(orig)] ]

\* calculateRealtimeStats: the live snapshot (time in ms, speed and accuracy as fractions)
CalculateRealtimeStats(st, ti, te, cs, typed, orig, t) ==
  IF st = null
  THEN [ speed      |-> [num |-> 0, den |-> 1],
         accuracy   |-> [num |-> 0, den |-> 1],
         time       |-> 0,
         errors     |-> 0,
         errorsLeft |-> 0,
         chars      |-> [typed |-> Len(typed), total |-> Len(orig)] ]
  ELSE [ speed      |-> Speed(WordCount(orig), t - st[1]),
         accuracy   |-> Accuracy(ti, te),
         time       |-> t - st[1],
         errors     |-> te,
         errorsLeft |-> ErrorsLeft(cs),
         chars      |-> [typed |-> Len(typed), total |-> Len(orig)] ]

\* the snapshot updateRealtimeStats displays: nothing new when no statistic is configured
DisplayedSnapshot(snap, st, ti, te, cs, typed, orig, t, cfg) ==
  IF ~cfg THEN snap
  ELSE << CalculateRealtimeStats(st, ti, te, cs, typed, orig, t) >>

\* an updateRealtimeStats that schedules the interval before typing has started
UpdateRealtimeStatsEager(iv, st, cfg) ==
  IF ~cfg THEN FALSE ELSE TRUE

\* realtimeStatsInterval after updateRealtimeStats
UpdateRealtimeStats(iv, st, cfg) ==
  IF ~cfg THEN FALSE
  ELSE IF st # null /\ ~iv THEN TRUE
  ELSE iv

\* an updateRealtimeStats that calls setInterval whenever typing has started
ScheduledAfterUpdateUnguarded(n, iv, st, cfg) ==
  IF ~cfg THEN (IF iv THEN n - 1 ELSE n)
  ELSE IF st # null THEN n + 1
  ELSE n

\* the scheduled intervals after updateRealtimeStats: clearInterval of the handle when no
\* statistic is configured, setInterval when typing has started and the handle is null
ScheduledAfterUpdate(n, iv, st, cfg) ==
  IF ~cfg THEN (IF iv THEN n - 1 ELSE n)
  ELSE IF st # null /\ ~iv THEN n + 1
  ELSE n

\* the scheduled intervals after "Clear real-time stats interval" of restart
ScheduledAfterClear(n, iv) == IF iv THEN n - 1 ELSE n

\* a restart that leaves a running interval alone
KeepInterval(iv) == iv

\* realtimeStatsInterval after "Clear real-time stats interval" of restart
ClearInterval(iv) == FALSE

\* a restart without the reset loop
KeepStates(cs) == cs

\* charStates after the reset loop of restart
ResetStates(cs) == [ p \in 1..Len(cs) |-> "pending" ]

\* ------------------------------------------------------- the report as text
\* A text is a sequence of lines and a line a sequence of symbols: a label, a unit, a
\* digit, the point, a space or a piece of other text.

DigitChars == <<"0", "1", "2", "3", "4", "5", "6", "7", "8", "9">>

Labels == <<"Total Errors Made:", "Errors Left (Unfixed):", "Total Time:", "Accuracy:", "Speed:">>

\* String(n) of a non-negative integer
RECURSIVE ToDecimal(_)
ToDecimal(n) ==
  IF n < 10 THEN << DigitChars[n + 1] >>
  ELSE ToDecimal(n \div 10) \o << DigitChars[(n % 10) + 1] >>

\* a toFixed that cuts the digits after the second place
ToFixedCut(f, up) ==
  LET h == (f.num * 100) \div f.den
  IN ToDecimal(h \div 100) \o <<".">> \o << DigitChars[((h \div 10) % 10) + 1], DigitChars[(h % 10) + 1] >>

\* Number.prototype.toFixed(2) of the fraction f >= 0: the nearest hundredth.  A value
\* halfway between two hundredths goes the way its binary representation lies: up tells
\* which
ToFixed(f, up) ==
  LET twice == (f.num * 200) \div f.den
      tie   == (f.num * 200) % f.den = 0 /\ twice % 2 = 1
      h     == IF tie /\ ~up THEN twice \div 2 ELSE (twice + 1) \div 2
  IN ToDecimal(h \div 100) \o <<".">> \o << DigitChars[((h \div 10) % 10) + 1], DigitChars[(h % 10) + 1] >>

\* stats.totalTime is in seconds: the milliseconds of the report over 1000
Seconds(ms) == [num |-> ms, den |-> 1000]

\* the template of saveStatistics split at its newlines; generated is the text of
\* new Date().toLocaleString()
FormatStats(stats, up, generated) ==
  << <<"Typing Statistics">>,
     <<"==================">>,
     <<>>,
     <<"Total Errors Made:", " ">> \o ToDecimal(stats.totalErrors),
     <<"Errors Left (Unfixed):", " ">> \o ToDecimal(stats.errorsLeft),
     <<"Total Time:", " ">> \o ToFixed(Seconds(stats.totalTime), up) \o <<" ", "seconds">>,
     <<"Accuracy:", " ">> \o ToFixed(stats.accuracy, up) \o <<"%">>,
     <<"Speed:", " ">> \o ToFixed(stats.speed, up) \o <<" ", "words per minute">>,
     <<>>,
     <<"Generated:", " ">> \o generated,
     <<>> >>

DigitSet == { DigitChars[i] : i \in 1..Len(DigitChars) }

DigitValue(c) == CHOOSE d \in 0..9 : DigitChars[d + 1] = c

\* the longest run of symbols of cs in line from position i on
RECURSIVE Run(_, _, _)
Run(line, i, cs) ==
  IF i <= Len(line) /\ line[i] \in cs THEN <<line[i]>> \o Run(line, i + 1, cs) ELSE <<>>

\* line.match(/label\s*(group+)/), with /\s*unit/ behind it when a unit is given: the
\* captured group of the first match, <<>> when there is none
Match(line, label, group, unit) ==
  LET Captured(p) == Run(line, p + 1 + Len(Run(line, p + 1, Whitespace)), group)
      After(p)    == p + 1 + Len(Run(line, p + 1, Whitespace)) + Len(Captured(p))
      UnitAt(p)   == LET q == After(p) + Len(Run(line, After(p), Whitespace))
                     IN q <= Len(line) /\ line[q] = unit
      hits == { p \in 1..Len(line) :
                  /\ line[p] = label
                  /\ Captured(p) # <<>>
                  /\ unit # "" => UnitAt(p) }
  IN IF hits = {} THEN <<>> ELSE Captured(CHOOSE p \in hits : \A q \in hits : p <= q)

\* the value of a run of digits
RECURSIVE DigitsValue(_)
DigitsValue(ds) ==
  IF ds = <<>> THEN 0 ELSE DigitsValue(SubSeq(ds, 1, Len(ds) - 1)) * 10 + DigitValue(ds[Len(ds)])

RECURSIVE Pow10(_)
Pow10(k) == IF k = 0 THEN 1 ELSE 10 * Pow10(k - 1)

\* parseInt(text, 10) of a run of digits
ParseInt(text) == << DigitsValue(text) >>

\* parseFloat of a run of digits and points: the digits up to the second point, <<>> for
\* NaN (no digit before and after the first point)
ParseFloat(text) ==
  LET whole == Run(text, 1, DigitSet)
      frac  == IF Len(whole) < Len(text) THEN Run(text, Len(whole) + 2, DigitSet) ELSE <<>>
  IN IF whole = <<>> /\ frac = <<>> THEN <<>>
     ELSE << [num |-> DigitsValue(whole \o frac), den |-> Pow10(Len(frac))] >>

Includes(line, label) == \E p \in 1..Len(line) : line[p] = label

\* one round of the loop of parseStatsText
ParseLine(stats, line) ==
  IF Includes(line, "Total Errors Made:")
  THEN LET m == Match(line, "Total Errors Made:", DigitSet, "")
       IN IF m # <<>> THEN [stats EXCEPT !.totalErrors = ParseInt(m)] ELSE stats
  ELSE IF Includes(line, "Errors Left (Unfixed):")
  THEN LET m == Match(line, "Errors Left (Unfixed):", DigitSet, "")
       IN IF m # <<>> THEN [stats EXCEPT !.errorsLeft = ParseInt(m)] ELSE stats
  ELSE IF Includes(line, "Total Time:")
  THEN LET m == Match(line, "Total Time:", DigitSet \cup {"."}, "seconds")
       IN IF m # <<>> THEN [stats EXCEPT !.totalTime = ParseFloat(m)] ELSE stats
  ELSE IF Includes(line, "Accuracy:")
  THEN LET m == Match(line, "Accuracy:", DigitSet \cup {"."}, "%")
       IN IF m # <<>> THEN [stats EXCEPT !.accuracy = ParseFloat(m)] ELSE stats
  ELSE IF Includes(line, "Speed:")
  THEN LET m == Match(line, "Speed:", DigitSet \cup {"."}, "words per minute")
       IN IF m # <<>> THEN [stats EXCEPT !.speed = ParseFloat(m)] ELSE stats
  ELSE stats

\* the loop of parseStatsText from line i on
RECURSIVE ParseLines(_, _, _)
ParseLines(stats, lines, i) ==
  IF i > Len(lines) THEN stats ELSE ParseLines(ParseLine(stats, lines[i]), lines, i + 1)

\* parseStatsText: a field the text does not give stays <<>> (undefined)
ParseStatsText(lines) ==
  ParseLines([totalErrors |-> <<>>, errorsLeft |-> <<>>, totalTime |-> <<>>,
              accuracy |-> <<>>, speed |-> <<>>], lines, 1)

\* the specification's accuracy example as buffer values: 'a', 'x', backspace, 'b'
ExampleScript == << <<"a">>, <<"a", "x">>, <<"a">>, <<"a", "b">> >>

ExampleOff == Len(ExampleScript) + 1

NextExampleStep(step, raw) ==
  IF step < Len(ExampleScript) /\ raw = ExampleScript[step + 1] THEN step + 1 ELSE ExampleOff

\* ------------------------------------------------------------------ state

TypeOK ==
  /\ originalText \in Seq(Chars)
  /\ typedText \in Seq(Chars)
  /\ charStates \in Seq({"pending", "correct", "incorrect"})
  /\ startTime = null \/ (Len(startTime) = 1 /\ startTime[1] \in 0..now)
  /\ totalErrors \in Nat
  /\ totalInputs \in Nat
  /\ realtimeStatsInterval \in BOOLEAN
  /\ realTimeStats \in BOOLEAN
  /\ now \in Nat
  /\ loadPending \in BOOLEAN
  /\ sessionState \in {"idle", "active", "complete"}
  /\ reportHanded \in BOOLEAN
  /\ lastEvent \in {"init", "input", "restart", "tick", "load", "loadFailed", "dashboardTimeout"}
                     \cup SaveOutcomes \cup StatsFetchOutcomes
  /\ exampleStep \in 0..ExampleOff
  /\ Len(snapshot) <= 1
  /\ availableKeysSet = NormalizeKeys(configKeys)
  /\ policyCall.kind \in {"none", "key", "filter"}
  /\ Len(lastInput) <= 1
  /\ savePending \in 0..MaxSaves
  /\ reportCall.kind \in {"none", "report"}
  /\ scheduledIntervals \in Nat
  /\ showStats \in BOOLEAN
  /\ completionScreen \in BOOLEAN
  /\ statsDashboard \in BOOLEAN
  /\ restartButton \in BOOLEAN
  /\ dashboardTimeouts \in 0..MaxSaves
  /\ statsFetches \in 0..MaxSaves
  /\ restarted \in BOOLEAN
  /\ sockets \in Seq({"connecting", "open", "closed"})
  /\ Len(sockets) <= attempts
  /\ \A j \in 1..Len(reconnectTimers) : reconnectTimers[j] \in Nat
  /\ relayNow \in Nat
  /\ relayStatus \in {"", "connected", "disconnected", "error", "unavailable"}
  /\ attempts \in 0..MaxSockets
  /\ Len(lastAlert) <= 1

\* the state when initialize() has returned: config loaded, listeners attached,
\* the fetch of loadText in flight
InitWith(configs) ==
  /\ originalText = <<>>
  /\ typedText = <<>>
  /\ charStates = <<>>
  /\ startTime = null
  /\ totalErrors = 0
  /\ totalInputs = 0
  /\ realtimeStatsInterval = FALSE
  /\ configKeys \in configs
  /\ availableKeysSet = NormalizeKeys(configKeys)
  /\ policyCall = [kind |-> "none"]
  /\ realTimeStats \in BOOLEAN
  /\ now = 0
  /\ loadPending = TRUE
  /\ sessionState = "idle"
  /\ reportHanded = FALSE
  /\ handedReport = null
  /\ lastEvent = "init"
  /\ exampleStep = ExampleOff
  /\ snapshot = DisplayedSnapshot(null, null, 0, 0, <<>>, <<>>, <<>>, 0, realTimeStats)
  /\ lastInput = null
  /\ savePending = 0
  /\ reportCall = [kind |-> "none"]
  /\ scheduledIntervals = 0
  /\ completionScreen = FALSE
  /\ statsDashboard = FALSE
  /\ restartButton = TRUE
  /\ dashboardTimeouts = 0
  /\ statsFetches = 0
  /\ restarted = FALSE
  /\ sockets = <<>>
  /\ reconnectTimers = <<>>
  /\ relayNow = 0
  /\ relayStatus = ""
  /\ attempts = 0
  /\ lastAlert = null

\* a config.json that leaves showStats at its default
Init == InitWith(AllowSets) /\ showStats = FALSE

\* renderText up to its completion branch, with showCompletionScreen: the values are
\* those the handler has just assigned; handed tells whether this session handed a
\* report before the call
RenderText(typed, orig, st, ti, te, cs, handed) ==
  LET stats == CalculateStatistics(st, ti, te, cs, orig, now) IN
  IF IsComplete(typed, orig)
  THEN /\ sessionState' = "complete"
       /\ reportHanded' = (handed \/ stats # null)
       /\ handedReport' = stats
  ELSE /\ sessionState' = "active"
       /\ reportHanded' = handed
       /\ handedReport' = null

\* the input event of the hidden textarea; raw is e.target.value.  The values the
\* handler computes are bound once each, in the order of the code
HandleInput(raw) ==
  \E filtered \in { FilterInput(raw, availableKeysSet) } :
  \E st \in { StartClock(startTime, filtered, now) } :
  \E input \in { ClampInput(filtered, originalText) } :
  \E typed \in { NewTypedText(typedText, input) } :
  \E cs \in { NewCharStates(charStates, typedText, input, originalText) } :
  \E ti \in { NewTotalInputs(totalInputs, typedText, input, originalText) } :
  \E te \in { NewTotalErrors(totalErrors, typedText, input, originalText) } :
     /\ ti <= MaxInputs
     /\ startTime' = st
     /\ typedText' = typed
     /\ charStates' = cs
     /\ totalInputs' = ti
     /\ totalErrors' = te
     /\ RenderText(typed, originalText, st, ti, te, cs, reportHanded)
     /\ realtimeStatsInterval' = UpdateRealtimeStats(realtimeStatsInterval, st, realTimeStats)
     /\ scheduledIntervals' = ScheduledAfterUpdate(scheduledIntervals, realtimeStatsInterval,
                                                   st, realTimeStats)
     /\ snapshot' = DisplayedSnapshot(snapshot, st, ti, te, cs, typed, originalText, now,
                                      realTimeStats)
     /\ exampleStep' = NextExampleStep(exampleStep, raw)
     /\ lastEvent' = "input"
     /\ UNCHANGED <<configKeys, policyCall>>
     /\ UNCHANGED <<originalText, availableKeysSet, realTimeStats, now, loadPending>>

\* the click handler of the three restart buttons
Restart ==
  LET cs == ResetStates(charStates)
      cleared == ClearInterval(realtimeStatsInterval)
      iv == UpdateRealtimeStats(cleared, null, realTimeStats)
      n  == ScheduledAfterUpdate(ScheduledAfterClear(scheduledIntervals, realtimeStatsInterval),
                                 cleared, null, realTimeStats)
  IN /\ typedText' = <<>>
     /\ charStates' = cs
     /\ startTime' = null
     /\ totalErrors' = 0
     /\ totalInputs' = 0
     /\ realtimeStatsInterval' = UpdateRealtimeStats(iv, null, realTimeStats)
     /\ scheduledIntervals' = ScheduledAfterUpdate(n, iv, null, realTimeStats)
     /\ snapshot' = DisplayedSnapshot(snapshot, null, 0, 0, cs, <<>>, originalText, now,
                                      realTimeStats)
     /\ RenderText(<<>>, originalText, null, 0, 0, cs, FALSE)
     /\ exampleStep' = 0
     /\ lastEvent' = "restart"
     /\ UNCHANGED <<configKeys, policyCall>>
     /\ UNCHANGED <<originalText, availableKeysSet, realTimeStats, now, loadPending>>

\* an interval callback that also calls renderText
TickRendering ==
  /\ realtimeStatsInterval
  /\ realtimeStatsInterval' = UpdateRealtimeStats(realtimeStatsInterval, startTime, realTimeStats)
  /\ scheduledIntervals' = ScheduledAfterUpdate(scheduledIntervals, realtimeStatsInterval,
                                                startTime, realTimeStats)
  /\ snapshot' = DisplayedSnapshot(snapshot, startTime, totalInputs, totalErrors, charStates,
                                   typedText, originalText, now, realTimeStats)
  /\ RenderText(typedText, originalText, startTime, totalInputs, totalErrors, charStates,
                reportHanded)
  /\ lastEvent' = "tick"
  /\ UNCHANGED <<configKeys, policyCall>>
  /\ UNCHANGED <<originalText, typedText, charStates, startTime, totalErrors, totalInputs,
                 availableKeysSet, realTimeStats, now, loadPending, exampleStep>>

\* the setInterval callback: updateRealtimeStats
Tick ==
  /\ realtimeStatsInterval
  /\ realtimeStatsInterval' = UpdateRealtimeStats(realtimeStatsInterval, startTime, realTimeStats)
  /\ scheduledIntervals' = ScheduledAfterUpdate(scheduledIntervals, realtimeStatsInterval,
                                                startTime, realTimeStats)
  /\ snapshot' = DisplayedSnapshot(snapshot, startTime, totalInputs, totalErrors, charStates,
                                   typedText, originalText, now, realTimeStats)
  /\ handedReport' = null
  /\ lastEvent' = "tick"
  /\ UNCHANGED <<configKeys, policyCall>>
  /\ UNCHANGED <<originalText, typedText, charStates, startTime, totalErrors, totalInputs,
                 availableKeysSet, realTimeStats, now, loadPending, sessionState,
                 reportHanded, exampleStep>>

\* loadText after a successful fetch of the text file with content raw
LoadText(raw) ==
  LET orig == TrimEnd(raw)
      cs   == [ p \in 1..Len(orig) |-> "pending" ]
  IN /\ loadPending
     /\ loadPending' = FALSE
     /\ originalText' = orig
     /\ charStates' = cs
     /\ RenderText(typedText, orig, startTime, totalInputs, totalErrors, cs, FALSE)
     /\ exampleStep' = 0
     /\ lastEvent' = "load"
     /\ UNCHANGED <<snapshot, configKeys, policyCall, scheduledIntervals>>
     /\ UNCHANGED <<typedText, startTime, totalErrors, totalInputs, realtimeStatsInterval,
                    availableKeysSet, realTimeStats, now>>

\* loadText when the fetch fails: the catch branch
LoadTextFailed ==
  /\ loadPending
  /\ loadPending' = FALSE
  /\ handedReport' = null
  /\ lastEvent' = "loadFailed"
  /\ UNCHANGED <<snapshot, configKeys, policyCall, scheduledIntervals>>
  /\ UNCHANGED <<originalText, typedText, charStates, startTime, totalErrors, totalInputs,
                 realtimeStatsInterval, availableKeysSet, realTimeStats, now,
                 sessionState, reportHanded, exampleStep>>

\* Date.now() advances
AdvanceClock ==
  /\ now < MaxNow
  /\ now' = now + 1
  /\ UNCHANGED <<snapshot, configKeys, policyCall, scheduledIntervals>>
  /\ UNCHANGED <<originalText, typedText, charStates, startTime, totalErrors, totalInputs,
                 realtimeStatsInterval, availableKeysSet, realTimeStats,
                 loadPending, sessionState, reportHanded, handedReport, lastEvent,
                 exampleStep>>

\* the session alone: the buffer and the save requests are not observed
Unobserved == UNCHANGED <<lastInput, savePending, reportCall, screenVars, relayVars>>

Next ==
  \/ \E raw \in BufferValues : HandleInput(raw) /\ Unobserved
  \/ Restart /\ Unobserved
  \/ Tick /\ Unobserved
  \/ \E raw \in RawTexts : LoadText(raw) /\ Unobserved
  \/ LoadTextFailed /\ Unobserved
  \/ AdvanceClock /\ Unobserved

Spec == Init /\ [][Next]_vars

\* ------------------------------------- the session with the input buffer observed

\* the characters of a buffer when the buffer or the save requests are observed
InputChars == {"a", "b", "x"}

InputBufferValues == SeqsOver(InputChars, MaxBufLen)

\* the value handleInput leaves in e.target.value: filtered, then clamped
ObserveInput(raw) ==
  /\ lastInput' = << ClampInput(FilterInput(raw, availableKeysSet), originalText) >>
  /\ UNCHANGED <<savePending, reportCall, screenVars, relayVars>>

\* another handler ran: the buffer of the last input event is no longer observed
ForgetInput ==
  /\ lastInput' = null
  /\ UNCHANGED <<savePending, reportCall, screenVars, relayVars>>

InputNext ==
  \/ \E raw \in InputBufferValues : HandleInput(raw) /\ ObserveInput(raw)
  \/ Restart /\ ForgetInput
  \/ Tick /\ ForgetInput
  \/ \E raw \in RawTexts : LoadText(raw) /\ ForgetInput
  \/ LoadTextFailed /\ ForgetInput
  \/ AdvanceClock /\ Unobserved

InputSpec == Init /\ [][InputNext]_vars

\* ------------------------------------ the session with the save requests observed

\* showCompletionScreen calls saveStatistics when calculateStatistics returned a report:
\* one more POST in flight
Posted ==
  /\ savePending' = savePending + (IF handedReport' # null THEN 1 ELSE 0)
  /\ savePending' <= MaxSaves
  /\ UNCHANGED <<lastInput, reportCall, screenVars, relayVars>>

\* a saveStatistics whose failure branches put the session back to active
SaveSettlesRollback(outcome) ==
  /\ savePending > 0
  /\ savePending' = savePending - 1
  /\ sessionState' = IF outcome = "saveOk" THEN sessionState ELSE "active"
  /\ handedReport' = null
  /\ lastEvent' = outcome
  /\ UNCHANGED <<snapshot, configKeys, policyCall, lastInput, reportCall, scheduledIntervals>>
  /\ UNCHANGED <<originalText, typedText, charStates, startTime, totalErrors, totalInputs,
                 realtimeStatsInterval, availableKeysSet, realTimeStats, now, loadPending,
                 reportHanded, exampleStep>>

\* the POST of saveStatistics settles: every branch only writes to the console
SaveSettles(outcome) ==
  /\ savePending > 0
  /\ savePending' = savePending - 1
  /\ handedReport' = null
  /\ lastEvent' = outcome
  /\ UNCHANGED <<snapshot, configKeys, policyCall, lastInput, reportCall, scheduledIntervals>>
  /\ UNCHANGED <<originalText, typedText, charStates, startTime, totalErrors, totalInputs,
                 realtimeStatsInterval, availableKeysSet, realTimeStats, now, loadPending,
                 sessionState, reportHanded, exampleStep>>

SaveNext ==
  \/ \E raw \in InputBufferValues : HandleInput(raw) /\ Posted
  \/ Restart /\ Posted
  \/ Tick /\ Unobserved
  \/ \E raw \in RawTexts : LoadText(raw) /\ Posted
  \/ LoadTextFailed /\ Unobserved
  \/ AdvanceClock /\ Unobserved
  \/ \E outcome \in SaveOutcomes : SaveSettles(outcome) /\ UNCHANGED <<screenVars, relayVars>>

SaveSpec == Init /\ [][SaveNext]_vars

\* ------------------------------------- the session over texts of several words

\* contents of the text file with one, two and three words
StatsTexts == { <<>>, <<"b">>, <<"a", " ", "b">>, <<"a", " ", "b", " ", "x">> }

StatsBufferValues == SeqsOver({"a", " "}, MaxBufLen)

\* the steps of Date.now(): half a minute and a minute
ClockSteps == { Minute \div 2, Minute }

\* Date.now() advances by d milliseconds
AdvanceClockBy(d) ==
  /\ now + d <= Minute
  /\ now' = now + d
  /\ UNCHANGED <<snapshot, configKeys, policyCall, scheduledIntervals>>
  /\ UNCHANGED <<originalText, typedText, charStates, startTime, totalErrors, totalInputs,
                 realtimeStatsInterval, availableKeysSet, realTimeStats,
                 loadPending, sessionState, reportHanded, handedReport, lastEvent,
                 exampleStep>>

StatsNext ==
  \/ \E raw \in StatsBufferValues : HandleInput(raw) /\ Unobserved
  \/ Restart /\ Unobserved
  \/ Tick /\ Unobserved
  \/ \E raw \in StatsTexts : LoadText(raw) /\ Unobserved
  \/ LoadTextFailed /\ Unobserved
  \/ \E d \in ClockSteps : AdvanceClockBy(d) /\ Unobserved

StatsSpec == Init /\ [][StatsNext]_vars

\* ------------------------------------------- the report written and read back

\* elapsed times of a report in milliseconds
ReportTimes == {0, 5, 994, 12345, Minute}

\* the reports calculateStatistics can return: errorsLeft <= totalErrors <= totalInputs
ReportValues ==
  UNION { UNION { { [ totalErrors |-> te, errorsLeft |-> el, totalTime |-> ms,
                      accuracy |-> Accuracy(ti, te), speed |-> Speed(w, ms) ] :
                      el \in 0..te, ms \in ReportTimes, w \in 0..MaxInputs } :
                  te \in 0..ti } :
          ti \in 0..MaxInputs }

\* lines around the report that carry no label
ExtraLines ==
  { <<>>,
    << <<"Typing Statistics">>, <<>> >>,
    << <<"Generated:", " ", "1", "1", ".", "2", " ", "seconds">> >> }

\* saveStatistics formats the report stats; the text is read back between the lines
\* before and after and parsed by parseStatsText.  The text read back depends on
\* nothing but the report, so a behaviour follows one report
SaveAndParse(stats, up, before, after) ==
  /\ reportCall.kind = "none"
  /\ reportCall' = [ kind   |-> "report",
                     stats  |-> stats,
                     text   |-> FormatStats(stats, up, <<"1", "1", "/", "2">>),
                     before |-> before,
                     after  |-> after,
                     parsed |-> ParseStatsText(
                                  before \o FormatStats(stats, up, <<"1", "1", "/", "2">>) \o after) ]
  /\ UNCHANGED <<originalText, typedText, charStates, startTime, totalErrors, totalInputs,
                 realtimeStatsInterval, availableKeysSet, realTimeStats, now,
                 loadPending, sessionState, reportHanded, handedReport, lastEvent,
                 exampleStep, snapshot, configKeys, policyCall, lastInput, savePending,
                 scheduledIntervals, screenVars, relayVars>>

ReportNext ==
  \E stats \in ReportValues, up \in BOOLEAN, before \in ExtraLines, after \in ExtraLines :
    SaveAndParse(stats, up, before, after)

ReportSpec == Init /\ [][ReportNext]_vars

\* ------------------------- the session with the screens and their callbacks observed

ScreenBufferValues == SeqsOver({"a", "b"}, MaxBufLen)

\* renderText ran in this step.  Its completion branch is showCompletionScreen, which hides
\* the dashboard and the restart button, and either posts the report or, without a
\* report, shows the completion screen; its other branch hides the completion screen
Rendered ==
  /\ IF sessionState' = "complete"
     THEN /\ statsDashboard' = FALSE
          /\ restartButton' = FALSE
          /\ completionScreen' = (IF handedReport' # null THEN completionScreen ELSE TRUE)
     ELSE /\ completionScreen' = FALSE
          /\ UNCHANGED <<statsDashboard, restartButton>>
  /\ savePending' = savePending + (IF handedReport' # null THEN 1 ELSE 0)
  /\ savePending' <= MaxSaves
  /\ restarted' = (restarted /\ sessionState' # "complete")
  /\ UNCHANGED <<showStats, dashboardTimeouts, statsFetches, lastInput, reportCall, relayVars>>

\* the click that runs restart comes from a button on display: the restart button, the
\* start-over button of the completion screen or the one of the dashboard.  restart hides
\* both screens and shows the restart button again before it calls renderText; it cancels
\* no callback
RestartClicked ==
  /\ restartButton \/ completionScreen \/ statsDashboard
  /\ statsDashboard' = FALSE
  /\ completionScreen' = (sessionState' = "complete")
  /\ restartButton' = (sessionState' # "complete")
  /\ restarted' = (sessionState' # "complete")
  /\ UNCHANGED <<showStats, dashboardTimeouts, statsFetches, savePending, lastInput, reportCall,
                 relayVars>>

\* the continuation of saveStatistics(stats).then in showCompletionScreen: a 200 ms
\* timeout for the dashboard when showStats is set, else the completion screen
Continued ==
  /\ IF showStats
     THEN /\ dashboardTimeouts' = dashboardTimeouts + 1
          /\ dashboardTimeouts' <= MaxSaves
          /\ UNCHANGED completionScreen
     ELSE /\ completionScreen' = TRUE
          /\ UNCHANGED dashboardTimeouts
  /\ UNCHANGED <<showStats, statsDashboard, restartButton, statsFetches, restarted, relayVars>>

\* the 200 ms timeout fires: showStatsDashboard up to its fetch of the stats file
DashboardTimeout ==
  /\ dashboardTimeouts > 0
  /\ dashboardTimeouts' = dashboardTimeouts - 1
  /\ statsFetches' = statsFetches + 1
  /\ statsFetches' <= MaxSaves
  /\ restartButton' = FALSE
  /\ completionScreen' = FALSE
  /\ handedReport' = null
  /\ lastEvent' = "dashboardTimeout"
  /\ UNCHANGED <<showStats, statsDashboard, restarted, relayVars>>
  /\ UNCHANGED <<snapshot, configKeys, policyCall, lastInput, savePending, reportCall,
                 scheduledIntervals>>
  /\ UNCHANGED <<originalText, typedText, charStates, startTime, totalErrors, totalInputs,
                 realtimeStatsInterval, availableKeysSet, realTimeStats, now, loadPending,
                 sessionState, reportHanded, exampleStep>>

\* a showStatsDashboard that shows nothing when the stats file cannot be fetched
StatsFetchSettlesSilent(outcome) ==
  /\ statsFetches > 0
  /\ statsFetches' = statsFetches - 1
  /\ statsDashboard' = (IF outcome = "statsOk" THEN TRUE ELSE statsDashboard)
  /\ handedReport' = null
  /\ lastEvent' = outcome
  /\ UNCHANGED <<showStats, completionScreen, restartButton, dashboardTimeouts, restarted,
                 relayVars>>
  /\ UNCHANGED <<snapshot, configKeys, policyCall, lastInput, savePending, reportCall,
                 scheduledIntervals>>
  /\ UNCHANGED <<originalText, typedText, charStates, startTime, totalErrors, totalInputs,
                 realtimeStatsInterval, availableKeysSet, realTimeStats, now, loadPending,
                 sessionState, reportHanded, exampleStep>>

\* the fetch of the stats file settles: the dashboard on a response that is ok, the
\* completion screen on a response that is not ok or a rejected fetch
StatsFetchSettles(outcome) ==
  /\ statsFetches > 0
  /\ statsFetches' = statsFetches - 1
  /\ statsDashboard' = (IF outcome = "statsOk" THEN TRUE ELSE statsDashboard)
  /\ completionScreen' = (IF outcome = "statsOk" THEN completionScreen ELSE TRUE)
  /\ handedReport' = null
  /\ lastEvent' = outcome
  /\ UNCHANGED <<showStats, restartButton, dashboardTimeouts, restarted, relayVars>>
  /\ UNCHANGED <<snapshot, configKeys, policyCall, lastInput, savePending, reportCall,
                 scheduledIntervals>>
  /\ UNCHANGED <<originalText, typedText, charStates, startTime, totalErrors, totalInputs,
                 realtimeStatsInterval, availableKeysSet, realTimeStats, now, loadPending,
                 sessionState, reportHanded, exampleStep>>

\* every key available, showStats either way
ScreenInit == InitWith({ {} }) /\ showStats \in BOOLEAN

ScreenNext ==
  \/ \E raw \in ScreenBufferValues : HandleInput(raw) /\ Rendered
  \/ Restart /\ RestartClicked
  \/ Tick /\ Unobserved
  \/ \E raw \in RawTexts : LoadText(raw) /\ Rendered
  \/ LoadTextFailed /\ Unobserved
  \/ \E outcome \in SaveOutcomes : SaveSettles(outcome) /\ Continued
  \/ DashboardTimeout
  \/ \E outcome \in StatsFetchOutcomes : StatsFetchSettles(outcome)

ScreenSpec == ScreenInit /\ [][ScreenNext]_vars

\* every callback in flight runs in the end: the POST settles, the timeout fires, the
\* fetch of the stats file settles
ScreenLiveSpec ==
  /\ ScreenSpec
  /\ WF_vars(\E outcome \in SaveOutcomes : SaveSettles(outcome) /\ Continued)
  /\ WF_vars(DashboardTimeout)
  /\ WF_vars(\E outcome \in StatsFetchOutcomes : StatsFetchSettles(outcome))

\* ---------------------------------------------------- the WebSocket relay client

\* the delay of the reconnection timeout, 3000 ms, in seconds
ReconnectDelay == 3

\* the clock runs until every socket under the cap can have reconnected
MaxRelayNow == MaxSockets * ReconnectDelay

\* what the server sends: a relay message with a text, a JSON value of another shape, a
\* text that is no JSON
Frames == {"message", "other", "malformed"}

\* the sockets that are connecting or open
LiveSockets ==
  Cardinality({ i \in 1..Len(sockets) : sockets[i] \in {"connecting", "open"} })

\* the sockets that have closed
ClosedSockets == Cardinality({ i \in 1..Len(sockets) : sockets[i] = "closed" })

\* the sequence s without its element j
Without(s, j) == SubSeq(s, 1, j - 1) \o SubSeq(s, j + 1, Len(s))

\* initializeWebSocket: new WebSocket(wsUrl) returns a connecting socket or throws
InitializeWebSocket(thrown) ==
  /\ attempts < MaxSockets
  /\ attempts' = attempts + 1
  /\ sockets' = (IF thrown THEN sockets ELSE Append(sockets, "connecting"))
  /\ relayStatus' = (IF thrown THEN "unavailable" ELSE relayStatus)

\* initialize() of app.js: the first call of initializeWebSocket
InitializeRelay(thrown) ==
  /\ attempts = 0
  /\ InitializeWebSocket(thrown)
  /\ UNCHANGED <<reconnectTimers, relayNow, lastAlert, typingVars>>

\* websocket.onopen of socket i
OnOpen(i) ==
  /\ sockets[i] = "connecting"
  /\ sockets' = [sockets EXCEPT ![i] = "open"]
  /\ relayStatus' = "connected"
  /\ UNCHANGED <<reconnectTimers, relayNow, attempts, lastAlert, typingVars>>

\* websocket.onmessage of socket i: an alert for a relay message, nothing for the rest
OnMessage(i, frame) ==
  /\ sockets[i] = "open"
  /\ lastAlert' = (IF frame = "message" THEN <<frame>> ELSE null)
  /\ UNCHANGED <<sockets, reconnectTimers, relayNow, relayStatus, attempts, typingVars>>

\* websocket.onerror of socket i
OnError(i) ==
  /\ sockets[i] \in {"connecting", "open"}
  /\ relayStatus' = "error"
  /\ UNCHANGED <<sockets, reconnectTimers, relayNow, attempts, lastAlert, typingVars>>

\* an onclose that sets the reconnection timeout twice
OnCloseTwice(i) ==
  /\ sockets[i] \in {"connecting", "open"}
  /\ attempts < MaxSockets
  /\ relayNow + ReconnectDelay <= MaxRelayNow
  /\ sockets' = [sockets EXCEPT ![i] = "closed"]
  /\ relayStatus' = "disconnected"
  /\ reconnectTimers' = reconnectTimers \o <<relayNow + ReconnectDelay, relayNow + ReconnectDelay>>
  /\ UNCHANGED <<relayNow, attempts, lastAlert, typingVars>>

\* websocket.onclose of socket i: the status, and a timeout that calls initializeWebSocket
\* after the delay.  A socket closes while a further call and its delay fit under the caps
OnClose(i) ==
  /\ sockets[i] \in {"connecting", "open"}
  /\ attempts < MaxSockets
  /\ relayNow + ReconnectDelay <= MaxRelayNow
  /\ sockets' = [sockets EXCEPT ![i] = "closed"]
  /\ relayStatus' = "disconnected"
  /\ reconnectTimers' = Append(reconnectTimers, relayNow + ReconnectDelay)
  /\ UNCHANGED <<relayNow, attempts, lastAlert, typingVars>>

\* the reconnection timeout j is due and fires: initializeWebSocket
ReconnectTimeout(j, thrown) ==
  /\ reconnectTimers[j] <= relayNow
  /\ reconnectTimers' = Without(reconnectTimers, j)
  /\ InitializeWebSocket(thrown)
  /\ UNCHANGED <<relayNow, lastAlert, typingVars>>

\* a second passes
AdvanceRelayClock ==
  /\ relayNow < MaxRelayNow
  /\ relayNow' = relayNow + 1
  /\ UNCHANGED <<sockets, reconnectTimers, relayStatus, attempts, lastAlert, typingVars>>

RelayNext ==
  \/ \E thrown \in BOOLEAN : InitializeRelay(thrown)
  \/ \E i \in 1..Len(sockets) : OnOpen(i)
  \/ \E i \in 1..Len(sockets), frame \in Frames : OnMessage(i, frame)
  \/ \E i \in 1..Len(sockets) : OnError(i)
  \/ \E i \in 1..Len(sockets) : OnClose(i)
  \/ \E j \in 1..Len(reconnectTimers), thrown \in BOOLEAN : ReconnectTimeout(j, thrown)
  \/ AdvanceRelayClock

\* time passes and a timeout that is due fires
RelaySpec ==
  /\ Init
  /\ [][RelayNext]_vars
  /\ WF_vars(AdvanceRelayClock)
  /\ WF_vars(\E j \in 1..Len(reconnectTimers), thrown \in BOOLEAN : ReconnectTimeout(j, thrown))

\* ------------------------------------------------- the key policy taken alone

engineVars == <<originalText, typedText, charStates, startTime, totalErrors, totalInputs,
                realtimeStatsInterval, availableKeysSet, realTimeStats, now,
                loadPending, sessionState, reportHanded, handedReport, lastEvent,
                exampleStep, snapshot, configKeys, lastInput, savePending, reportCall,
                scheduledIntervals, screenVars, relayVars>>

\* handleKeyDown asks isKeyAvailable(e.key)
CheckKey(key) ==
  /\ policyCall' = [kind |-> "key", key |-> key,
                    allowed |-> IsKeyAvailable(key, availableKeysSet)]
  /\ UNCHANGED engineVars

\* the filter step of handleInput on the buffer value raw
FilterBuffer(raw) ==
  /\ policyCall' = [kind |-> "filter", buffer |-> raw,
                    filtered |-> FilterInput(raw, availableKeysSet)]
  /\ UNCHANGED engineVars

KeyInit == InitWith(KeyConfigs) /\ showStats = FALSE

KeyNext ==
  \/ \E key \in Keys : CheckKey(key)
  \/ \E raw \in KeyBufferValues : FilterBuffer(raw)

KeySpec == KeyInit /\ [][KeyNext]_vars

\* ----------------------------------------------------------------- claims

NonPending == Cardinality({ p \in 1..Len(charStates) : charStates[p] # "pending" })

\* C1: after every input event the number of positions that are not pending equals
\* the length of the typed prefix.
C1_TypedLengthIsNonPending ==
  lastEvent = "input" => Len(typedText) = NonPending

\* C1 witness: an input event that shortened the prefix after forward typing
C1_Witness ==
  /\ lastEvent = "input"
  /\ Len(originalText) = 2
  /\ Len(typedText) = 1
  /\ totalInputs = 2

\* the session of a loaded, non-empty reference
Loaded == ~loadPending /\ originalText # <<>>

\* C2: once the session is complete, no input event changes the typed prefix, a position
\* state, a counter or startTime, and the session stays complete until restart.
C2_CompleteIsTerminal ==
  [][ (Loaded /\ sessionState = "complete" /\ lastEvent' = "input")
        => /\ typedText' = typedText
           /\ charStates' = charStates
           /\ totalInputs' = totalInputs
           /\ totalErrors' = totalErrors
           /\ startTime' = startTime
           /\ sessionState' = "complete" ]_vars

\* C3: between load and the first restart, or between two restarts, a report is handed
\* to the persistence collaborator at most once.
C3_ReportAtMostOnce ==
  [][ (Loaded /\ reportHanded) => handedReport' = null ]_vars

\* C4: for a non-empty reference, after an input event the session is complete exactly
\* when every position has been consumed, whatever characters were typed.
C4_CompleteIffAllConsumed ==
  (Loaded /\ lastEvent = "input")
    => (sessionState = "complete" <=> Len(typedText) = Len(originalText))

\* the length of s without its trailing whitespace: the position of its last
\* character that is not whitespace
RTrimLen(s) ==
  LET keep == { p \in 1..Len(s) : s[p] \notin Whitespace }
  IN IF keep = {} THEN 0 ELSE CHOOSE p \in keep : \A q \in keep : q <= p

C6_NoIntervalWhenComplete ==
  (Loaded /\ sessionState = "complete") => ~realtimeStatsInterval

\* C7: right after restart no interval is scheduled, and an interval is scheduled again
\* only by an input event that leaves startTime set.
C7_RestartCancelsInterval ==
  [][ /\ lastEvent' = "restart" => ~realtimeStatsInterval'
      /\ (~realtimeStatsInterval /\ realtimeStatsInterval')
           => (lastEvent' = "input" /\ startTime' # null) ]_vars

\* C7 witness: restart has run with real-time statistics configured, after the clock moved
C7_Witness ==
  /\ lastEvent = "restart"
  /\ Loaded
  /\ realTimeStats
  /\ now > 0
  /\ ~realtimeStatsInterval

\* C8: restart yields the state that held right after load (prefix empty, every position
\* pending, counters zero, startTime unset), leaves the reference and the allow-set
\* unchanged, and a second restart changes nothing.
C8_RestartRestoresLoadState ==
  [][ lastEvent' = "restart"
        => /\ typedText' = <<>>
           /\ charStates' = [ p \in 1..Len(originalText) |-> "pending" ]
           /\ totalInputs' = 0
           /\ totalErrors' = 0
           /\ startTime' = null
           /\ originalText' = originalText
           /\ availableKeysSet' = availableKeysSet
           /\ lastEvent = "restart"
                => UNCHANGED <<typedText, charStates, totalInputs, totalErrors, startTime,
                               realtimeStatsInterval, sessionState>> ]_vars

\* C8 witness: restart has run on a loaded two-character reference
C8_Witness ==
  /\ lastEvent = "restart"
  /\ Len(originalText) = 2
  /\ sessionState = "active"
  /\ typedText = <<>>

\* C9: totalErrors and totalInputs never decrease, except that restart sets both to 0.
C9_CountersNeverDecrease ==
  [][ /\ (totalErrors' < totalErrors \/ totalInputs' < totalInputs)
           => (lastEvent' = "restart" /\ totalErrors' = 0 /\ totalInputs' = 0)
      /\ lastEvent' = "restart" => (totalErrors' = 0 /\ totalInputs' = 0) ]_vars

\* C9 witness: a position typed wrongly was taken back and retyped correctly, and the
\* error is still counted
C9_Witness ==
  /\ lastEvent = "input"
  /\ originalText = <<"b">>
  /\ typedText = <<"b">>
  /\ charStates = <<"correct">>
  /\ totalErrors = 1
  /\ totalInputs = 2

\* C10: for reference "ab", typing 'a', 'x', backspace, 'b' leaves totalInputs = 3,
\* totalErrors = 1, errorsLeft = 0 and a report with accuracy (3-1)/3*100; every report
\* carries accuracy (totalInputs - totalErrors)/totalInputs*100 of the cumulative counters.
C10_AccuracyExample ==
  /\ ( /\ lastEvent = "input"
       /\ originalText = <<"a", "b">>
       /\ IsKeyAvailable("x", availableKeysSet)
       /\ exampleStep = Len(ExampleScript) )
       => /\ totalInputs = 3
          /\ totalErrors = 1
          /\ ErrorsLeft(charStates) = 0
          /\ handedReport # null
          /\ handedReport[1].accuracy.num * 3 = (3 - 1) * 100 * handedReport[1].accuracy.den
  /\ (lastEvent = "input" /\ handedReport # null /\ totalInputs > 0)
       => handedReport[1].accuracy.num * totalInputs
            = (totalInputs - totalErrors) * 100 * handedReport[1].accuracy.den

\* C10 witness: the example has been typed to its end and its report handed over
C10_Witness ==
  /\ lastEvent = "input"
  /\ originalText = <<"a", "b">>
  /\ exampleStep = Len(ExampleScript)
  /\ typedText = <<"a", "b">>
  /\ handedReport # null

\* the handlers that end in updateRealtimeStats
SnapshotEvents == {"input", "restart", "tick"}

\* C11: a live snapshot taken while startTime is unset has speed, accuracy, time, errors
\* and errorsLeft 0, chars.typed the length of the typed prefix and chars.total N.
C11_SnapshotBeforeTypingIsZero ==
  (realTimeStats /\ lastEvent \in SnapshotEvents /\ startTime = null)
    => /\ snapshot # null
       /\ snapshot[1].speed.num = 0
       /\ snapshot[1].speed.den # 0
       /\ snapshot[1].accuracy.num = 0
       /\ snapshot[1].accuracy.den # 0
       /\ snapshot[1].time = 0
       /\ snapshot[1].errors = 0
       /\ snapshot[1].errorsLeft = 0
       /\ snapshot[1].chars.typed = Len(typedText)
       /\ snapshot[1].chars.total = Len(originalText)

\* C11 witness: the snapshot restart takes on a loaded reference after the clock has moved
C11_Witness ==
  /\ realTimeStats
  /\ lastEvent = "restart"
  /\ Loaded
  /\ startTime = null
  /\ now > 0
  /\ snapshot # null

\* C12: completion is detected with startTime unset only for an empty reference, and then
\* no report is handed over; for a non-empty reference every detected completion has
\* startTime set and totalInputs > 0.
C12_CompletionWithoutClockOnlyWhenEmpty ==
  /\ (sessionState = "complete" /\ startTime = null)
       => (originalText = <<>> /\ handedReport = null /\ ~reportHanded)
  /\ (sessionState = "complete" /\ originalText # <<>>)
       => (startTime # null /\ totalInputs > 0)

\* C12 witness: an empty text file was loaded and restart detected completion again
C12_Witness ==
  /\ ~loadPending
  /\ originalText = <<>>
  /\ lastEvent = "restart"
  /\ sessionState = "complete"
  /\ startTime = null

\* C13: startTime is set exactly when a forward keystroke has been accepted since load
\* or the last restart.
C13_ClockSetIffInputAccepted ==
  (startTime # null) <=> (totalInputs > 0)

C15_LoadLeavesFreshState ==
  [][ (loadPending /\ lastEvent' = "load")
        => /\ typedText' = <<>>
           /\ \A p \in 1..Len(charStates') : charStates'[p] = "pending"
           /\ totalInputs' = 0
           /\ totalErrors' = 0
           /\ startTime' = null
           /\ ~reportHanded
           /\ handedReport' = null ]_vars

\* the always-available group: space, comma, period, backspace and enter, as characters
\* and as key names
AlwaysAvailable ==
  { " ", "\\u00A0", ",", ".", "Backspace", "\\b", "Enter", "Return", "\n", "\r",
    "Space", "space", "comma", "dot", "backspace", "enter" }

C17_FilterKeepsAllowed ==
  LET Allowed(c) == IsKeyAvailable(c, availableKeysSet) IN
  /\ (policyCall.kind = "key" /\ configKeys = {}) => policyCall.allowed
  /\ (policyCall.kind = "filter" /\ configKeys = {})
       => policyCall.filtered = policyCall.buffer
  /\ policyCall.kind = "filter"
       => policyCall.filtered = SelectSeq(policyCall.buffer, Allowed)

\* C17 witness: a buffer with an unavailable character between available ones was filtered
C17_Witness ==
  /\ policyCall.kind = "filter"
  /\ configKeys = {"A"}
  /\ policyCall.buffer = <<"a", "x", "A">>
  /\ policyCall.filtered = <<"a", "A">>

\* the canonical lower-case form of a key: the tab character and the name Tab are "tab"
Canonical(key) == IF key \in {"Tab", "tab", "\t"} THEN "tab" ELSE ToLowerCase(key)

\* C18: with a non-empty allow-set a key outside the always-available group is permitted
\* exactly when its canonical lower-case form is in the lower-cased allow-set.
C18_MembershipOfLowerCasedKey ==
  (policyCall.kind = "key" /\ configKeys # {} /\ policyCall.key \notin AlwaysAvailable)
    => (policyCall.allowed
          <=> Canonical(policyCall.key) \in { ToLowerCase(k) : k \in configKeys })

\* C18 witness: the tab character was permitted because the configuration lists Tab
C18_Witness ==
  /\ policyCall.kind = "key"
  /\ policyCall.key = "\t"
  /\ configKeys = {"A", "Tab"}
  /\ policyCall.allowed

\* C19: every character of the typed prefix is permitted by the key policy under the
\* configured allow-set.
C19_TypedCharsAllowed ==
  \A p \in 1..Len(typedText) : IsKeyAvailable(typedText[p], availableKeysSet)

\* C19 witness: under an allow-set without x the buffers "a", "ax" left the prefix "a"
C19_Witness ==
  /\ availableKeysSet # {}
  /\ ~IsKeyAvailable("x", availableKeysSet)
  /\ lastEvent = "input"
  /\ exampleStep = 2
  /\ typedText = <<"a">>
  /\ totalInputs = 1

\* C20: the typed prefix is never longer than the reference, and an input event counts
\* and marks no more characters than there are positions left.
C20_NothingBeyondReference ==
  [][ /\ Len(typedText') <= Len(originalText')
      /\ Len(charStates') = Len(originalText')
      /\ lastEvent' = "input"
           => /\ totalInputs' - totalInputs <= Len(originalText) - Len(typedText)
              /\ totalErrors' - totalErrors <= totalInputs' - totalInputs ]_vars

\* C20 witness: on reference "b" the buffers "a", "ax" left the prefix "a", one input counted
C20_Witness ==
  /\ configKeys = {}
  /\ originalText = <<"b">>
  /\ lastEvent = "input"
  /\ exampleStep = 2
  /\ typedText = <<"a">>
  /\ totalInputs = 1

\* C21: after every input event the typed prefix equals the filtered, clamped buffer
\* value, whether that buffer is longer than, shorter than or as long as the prefix was.
C21_TypedEqualsBuffer ==
  (Loaded /\ lastInput # null) => typedText = lastInput[1]

\* C22: when a save request settles, whatever the outcome, the typed prefix, the position
\* states, the counters, startTime and the session state are unchanged; a session that
\* hands a report over is complete whether or not an earlier request has settled.
C22_SaveOutcomeLeavesSession ==
  [][ /\ savePending' < savePending
           => UNCHANGED <<typedText, charStates, totalInputs, totalErrors, startTime,
                          sessionState>>
      /\ savePending' > savePending => sessionState' = "complete" ]_vars

\* C22 witness: the request of a complete session failed with an HTTP error
C22_Witness ==
  /\ lastEvent = "saveHttpError"
  /\ Loaded
  /\ sessionState = "complete"
  /\ typedText = originalText
  /\ savePending = 0

\* the whitespace-delimited non-empty tokens of s, counted from the left; inWord tells
\* whether the character before s belongs to a token
RECURSIVE TokenCount(_, _)
TokenCount(s, inWord) ==
  IF s = <<>> THEN 0
  ELSE IF Head(s) \in Whitespace THEN TokenCount(Tail(s), FALSE)
  ELSE (IF inWord THEN 0 ELSE 1) + TokenCount(Tail(s), TRUE)

RECURSIVE GCD(_, _)
GCD(a, b) == IF b = 0 THEN a ELSE GCD(b, a % b)

\* the fraction f in lowest terms
Lowest(f) ==
  LET g == GCD(f.num, f.den) IN [num |-> f.num \div g, den |-> f.den \div g]

\* speed is words per elapsed minute of the reference's tokens, 0 when no time has elapsed
SpeedIsWordsPerMinute(speed, orig, elapsed) ==
  IF elapsed > 0
  THEN Lowest(speed) = Lowest([num |-> TokenCount(orig, FALSE) * Minute, den |-> elapsed])
  ELSE speed.num = 0 /\ speed.den # 0

\* C23: the speed of every final report and of every live snapshot is the number of
\* tokens of the reference per elapsed minute, 0 when no time has elapsed; for the
\* three-word reference after one minute it is 3.
C23_SpeedIsWordsPerMinute ==
  /\ handedReport # null
       => SpeedIsWordsPerMinute(handedReport[1].speed, originalText, handedReport[1].totalTime)
  /\ (realTimeStats /\ lastEvent \in SnapshotEvents /\ startTime # null)
       => /\ snapshot # null
          /\ SpeedIsWordsPerMinute(snapshot[1].speed, originalText, snapshot[1].time)
  /\ ( /\ realTimeStats /\ lastEvent \in SnapshotEvents /\ startTime # null
       /\ originalText = <<"a", " ", "b", " ", "x">>
       /\ snapshot # null
       /\ snapshot[1].time = Minute )
       => Lowest(snapshot[1].speed) = [num |-> 3, den |-> 1]

\* C23 witness: the live snapshot of the three-word reference one minute after the
\* first keystroke
C23_Witness ==
  /\ realTimeStats
  /\ lastEvent = "tick"
  /\ originalText = <<"a", " ", "b", " ", "x">>
  /\ startTime = <<0>>
  /\ now = Minute
  /\ snapshot[1].time = Minute
  /\ Lowest(snapshot[1].speed) = [num |-> 3, den |-> 1]

\* a timer tick that follows a handler which displayed a snapshot: the two snapshots have
\* no input event, restart or load between them
SecondSnapshot ==
  /\ realTimeStats
  /\ lastEvent \in SnapshotEvents
  /\ lastEvent' = "tick"
  /\ snapshot # null
  /\ snapshot' # null

\* the fields of a snapshot that do not depend on the clock
ClockFree(s) == <<s.accuracy, s.errors, s.errorsLeft, s.chars>>

RECURSIVE LabelsOf(_)
LabelsOf(lines) ==
  IF lines = <<>> THEN <<>>
  ELSE LET IsLabel(c) == \E i \in 1..Len(Labels) : Labels[i] = c
       IN SelectSeq(Head(lines), IsLabel) \o LabelsOf(Tail(lines))

\* the parsed decimal p is the fraction f rounded to two places
RoundedToTwoPlaces(p, f) ==
  /\ p # <<>>
  /\ p[1].den = 100
  /\ 2 * (p[1].num * f.den - 100 * f.num) <= f.den
  /\ 2 * (100 * f.num - p[1].num * f.den) <= f.den

\* C25: the text saveStatistics writes lists the five labelled fields in the fixed order,
\* and parsing it, also between extra lines, recovers the two integers exactly and the
\* three decimals rounded to two places.
C25_ReportRoundTrip ==
  reportCall.kind = "report"
    => /\ LabelsOf(reportCall.text) = Labels
       /\ reportCall.parsed.totalErrors = << reportCall.stats.totalErrors >>
       /\ reportCall.parsed.errorsLeft = << reportCall.stats.errorsLeft >>
       /\ RoundedToTwoPlaces(reportCall.parsed.totalTime, Seconds(reportCall.stats.totalTime))
       /\ RoundedToTwoPlaces(reportCall.parsed.accuracy, reportCall.stats.accuracy)
       /\ RoundedToTwoPlaces(reportCall.parsed.speed, reportCall.stats.speed)

\* C25 witness: a report with accuracy 2/3 and 0.994 s was written and read back between
\* extra lines
C25_Witness ==
  /\ reportCall.kind = "report"
  /\ reportCall.before # <<>>
  /\ reportCall.after # <<>>
  /\ reportCall.stats.accuracy = Accuracy(3, 1)
  /\ reportCall.stats.totalTime = 994
  /\ reportCall.stats.totalErrors = 1
  /\ reportCall.parsed.accuracy = << [num |-> 6667, den |-> 100] >>
  /\ reportCall.parsed.totalTime = << [num |-> 99, den |-> 100] >>

\* C26: at most one live-snapshot interval is scheduled at any time, and it is the one
\* realtimeStatsInterval refers to.
C26_AtMostOneInterval ==
  /\ scheduledIntervals <= 1
  /\ scheduledIntervals = 1 <=> realtimeStatsInterval

\* C26 witness: a second input event ran updateRealtimeStats while the interval of the
\* first was running
C26_Witness ==
  /\ Loaded
  /\ lastEvent = "input"
  /\ exampleStep = 2
  /\ realtimeStatsInterval
  /\ scheduledIntervals = 1

\* C27: a forward input event that extends the prefix of length L to the clamped length
\* M > L raises totalInputs by M - L, marks each position of L..M-1 correct or incorrect
\* by comparing the new character with the reference, raises totalErrors by the number
\* of positions marked incorrect, and leaves the other positions as they were.
C27_ForwardEvent ==
  [][ (lastInput' # null /\ Len(lastInput'[1]) > Len(typedText))
        => LET new == lastInput'[1]
               fresh == (Len(typedText) + 1)..Len(new)
           IN /\ totalInputs' = totalInputs + Cardinality(fresh)
              /\ \A p \in fresh :
                   charStates'[p] = IF new[p] = originalText[p] THEN "correct" ELSE "incorrect"
              /\ totalErrors' = totalErrors
                                  + Cardinality({ p \in fresh : charStates'[p] = "incorrect" })
              /\ \A p \in 1..Len(charStates) : p \notin fresh => charStates'[p] = charStates[p]
              /\ Len(charStates') = Len(charStates) ]_vars

\* C27 witness: on reference "ab" the buffers "a", "ax" were typed
C27_Witness ==
  /\ originalText = <<"a", "b">>
  /\ exampleStep = 2
  /\ lastInput = << <<"a", "x">> >>
  /\ charStates = <<"correct", "incorrect">>
  /\ totalInputs = 2
  /\ totalErrors = 1

\* C28: an input event whose buffer is shorter than the prefix makes every position from
\* the new length on pending, leaves the positions below it as they were, and leaves
\* totalInputs, totalErrors and startTime unchanged.
C28_BackspaceEvent ==
  [][ (lastInput' # null /\ Len(lastInput'[1]) < Len(typedText))
        => /\ \A p \in 1..Len(charStates) :
                charStates'[p] = IF p > Len(lastInput'[1]) THEN "pending" ELSE charStates[p]
           /\ Len(charStates') = Len(charStates)
           /\ UNCHANGED <<totalInputs, totalErrors, startTime>> ]_vars

\* C28 witness: on reference "ab" the buffers "a", "ax", "a" were typed
C28_Witness ==
  /\ originalText = <<"a", "b">>
  /\ exampleStep = 3
  /\ lastInput = << <<"a">> >>
  /\ charStates = <<"correct", "pending">>
  /\ totalInputs = 2
  /\ totalErrors = 1

\* C29: an input event whose filtered, clamped buffer is as long as the prefix changes no
\* position state and neither counter, whether or not its content differs from the prefix.
C29_SameLengthEvent ==
  [][ (lastInput' # null /\ Len(lastInput'[1]) = Len(typedText))
        => UNCHANGED <<charStates, totalInputs, totalErrors>> ]_vars

\* C29 witness: the buffer of the last input event is as long as the prefix and differs
\* from it
C29_Witness ==
  /\ Loaded
  /\ lastInput # null
  /\ lastInput[1] # typedText
  /\ Len(lastInput[1]) = Len(typedText)
  /\ totalErrors = 1

\* the buffers made of the prefix followed by one or more characters the key policy rejects
PrefixPlusDisallowed ==
  { typedText \o suffix :
      suffix \in SeqsOver({ c \in InputChars : ~IsKeyAvailable(c, availableKeysSet) },
                          MaxBufLen - Len(typedText)) \ {<<>>} }

\* C30: an input event whose buffer is the prefix followed only by disallowed characters
\* leaves the prefix, every position state, both counters and startTime unchanged.
C30_DisallowedOnlyEvent ==
  [][ \A raw \in PrefixPlusDisallowed :
        HandleInput(raw)
          => UNCHANGED <<typedText, charStates, totalInputs, totalErrors, startTime>> ]_vars

\* C30 witness: under an allow-set without x, on reference "ab", the buffers "a", "ax"
\* were typed and the prefix is "a"
C30_Witness ==
  /\ ~IsKeyAvailable("x", availableKeysSet)
  /\ originalText = <<"a", "b">>
  /\ exampleStep = 2
  /\ lastInput = << <<"a">> >>
  /\ typedText = <<"a">>
  /\ charStates = <<"correct", "pending">>
  /\ totalInputs = 1

\* s is a prefix of t
IsPrefix(s, t) == Len(s) <= Len(t) /\ SubSeq(t, 1, Len(s)) = s

\* the buffers that extend the prefix
PrefixExtensions ==
  { typedText \o suffix : suffix \in SeqsUpTo(MaxBufLen - Len(typedText)) }

\* C31: the key-availability set does not change after the configuration load, and the
\* whole-buffer filter never removes an accepted character: the filter of a buffer that
\* extends the prefix still extends the prefix, and filtering a filtered buffer returns it.
C31_FilterKeepsAccepted ==
  /\ [](/\ \A raw \in PrefixExtensions :
             IsPrefix(typedText, FilterInput(raw, availableKeysSet))
        /\ \A raw \in BufferValues :
             FilterInput(FilterInput(raw, availableKeysSet), availableKeysSet)
               = FilterInput(raw, availableKeysSet))
  /\ [][availableKeysSet' = availableKeysSet]_vars

\* C31 witness: under an allow-set without x, a character was accepted and the buffer
\* that adds x to it filters back to it
C31_Witness ==
  /\ Loaded
  /\ lastEvent = "input"
  /\ originalText = <<"a", "b">>
  /\ typedText = <<"a">>
  /\ ~IsKeyAvailable("x", availableKeysSet)
  /\ FilterInput(typedText \o <<"x">>, availableKeysSet) = typedText

\* C32: in every reachable state each position below the length of the prefix is correct
\* when the prefix agrees with the reference there and incorrect otherwise, so errorsLeft
\* is the number of mismatching characters of the prefix, whatever buffer values came.
C32_StatesMatchPrefix ==
  /\ Len(typedText) <= Len(charStates)
  /\ \A p \in 1..Len(typedText) :
       charStates[p] = IF typedText[p] = originalText[p] THEN "correct" ELSE "incorrect"
  /\ ErrorsLeft(charStates)
       = Cardinality({ p \in 1..Len(typedText) : typedText[p] # originalText[p] })

\* C33: in every reachable state errorsLeft <= totalErrors <= totalInputs and the length
\* of the prefix is at most totalInputs.
C33_CounterOrder ==
  /\ ErrorsLeft(charStates) <= totalErrors
  /\ totalErrors <= totalInputs
  /\ Len(typedText) <= totalInputs

\* C33 witness: after 'a', 'x' and a backspace the three inequalities are strict
C33_Witness ==
  /\ Loaded
  /\ exampleStep = 3
  /\ ErrorsLeft(charStates) = 0
  /\ totalErrors = 1
  /\ totalInputs = 2
  /\ Len(typedText) = 1

\* C34: after restart the completion screen and the statistics dashboard stay hidden until
\* the new session is detected complete; the calls that blur the input stand in the
\* branches that show one of the two.
C34_HiddenAfterRestart ==
  restarted => (~completionScreen /\ ~statsDashboard)

\* C35: whenever completion is detected, the completion screen or the statistics dashboard
\* is displayed in the end, when every POST and every fetch of the stats file settles and
\* every timeout fires, unless a restart comes first.
C35_CompletionIsShown ==
  (sessionState = "complete" /\ lastEvent \in {"input", "load"})
    ~> (completionScreen \/ statsDashboard \/ lastEvent = "restart")

\* C35 witness: with showStats set, the session completed with a report, the POST settled,
\* the timeout fired, the fetch of the stats file failed and the completion screen is shown
C35_Witness ==
  /\ Loaded
  /\ showStats
  /\ ~restarted
  /\ sessionState = "complete"
  /\ reportHanded
  /\ lastEvent = "statsHttpError"
  /\ completionScreen
  /\ ~statsDashboard
  /\ savePending = 0

\* C36: whenever the live-snapshot interval is scheduled, startTime is set; and when
\* real-time statistics are configured, the interval is scheduled from the input event
\* that sets startTime until the next restart, that is, whenever startTime is set.
C36_IntervalWhileClockRuns ==
  /\ realtimeStatsInterval => startTime # null
  /\ (realTimeStats /\ startTime # null) => realtimeStatsInterval

\* C36 witness: real-time statistics are configured, the session has completed and the
\* interval has ticked since
C36_Witness ==
  /\ Loaded
  /\ realTimeStats
  /\ sessionState = "complete"
  /\ lastEvent = "tick"
  /\ startTime # null
  /\ realtimeStatsInterval

\* C37: a timer tick leaves the prefix, every position state, totalInputs, totalErrors,
\* startTime and the reference text unchanged, detects no completion and hands no report
\* to saveStatistics.
C37_TickObservesOnly ==
  [][ lastEvent' = "tick"
        => /\ UNCHANGED <<typedText, charStates, totalInputs, totalErrors, startTime,
                          originalText>>
           /\ UNCHANGED <<sessionState, reportHanded, savePending>>
           /\ handedReport' = null ]_vars

\* C37 witness: the interval ticked on an active session with one error typed
C37_Witness ==
  /\ Loaded
  /\ lastEvent = "tick"
  /\ sessionState = "active"
  /\ typedText = <<"x">>
  /\ totalErrors = 1
  /\ snapshot # null
  /\ snapshot[1].errors = 1

\* C38: every close of a socket of the relay client sets exactly one reconnection timeout,
\* due 3 seconds later, and a timeout calls initializeWebSocket only when it is due; so the
\* sockets that are open or connecting and the pending timeouts are at most one together,
\* and after every close initializeWebSocket is called again in the end.
C38_OneReconnectPerClose ==
  /\ [](LiveSockets + Len(reconnectTimers) <= 1)
  /\ [][ ClosedSockets' > ClosedSockets
           => reconnectTimers' = Append(reconnectTimers, relayNow + ReconnectDelay) ]_vars
  /\ [][ (attempts > 0 /\ attempts' > attempts)
           => /\ Len(reconnectTimers') = Len(reconnectTimers) - 1
              /\ \E j \in 1..Len(reconnectTimers) : reconnectTimers[j] <= relayNow ]_vars
  /\ \A c \in 1..(MaxSockets - 1) : (ClosedSockets = c) ~> (attempts > c)

\* C38 witness: two sockets closed, each followed by its reconnection after the delay,
\* and the third socket is open
C38_Witness ==
  /\ sockets = <<"closed", "closed", "open">>
  /\ attempts = 3
  /\ reconnectTimers = <<>>
  /\ relayNow >= 2 * ReconnectDelay
  /\ relayStatus = "connected"

====
